---- MODULE Spec2Model ----
(***************************************************************************)
(* State-machine model of greedier_BATLZ.c: Ukkonen suffix-tree            *)
(* construction (ST_CreateTree, SPA, SEA), the post-construction DFS, the  *)
(* annotation engine (changeAnnotationFromLeaf, propagateAnnotation), the  *)
(* query ST_FindSubstring and the greedy parser parseBLZ.                  *)
(*                                                                         *)
(* Nodes live in a sequence `nodes`; a NODE* is an index into it and the   *)
(* null pointer is 0.  The root is node 1.  `unsigned int` fields that the *)
(* code compares with -1 are kept in two's-complement form (the unset      *)
(* value is -1) and compared with the unsigned order ULess.                *)
(***************************************************************************)
EXTENDS Integers, Sequences, FiniteSets, TLC

\* ---------------------------------------------------------------- bounds
MaxLen == 6
MaxCost == 2
AlphabetSize == 2
MaxDistinct == 16
ScenarioCost == 5
LongLen == 11
MainLen == 3

NULL == 0
ROOT == 1
UNSET == -1
SENTINEL == 0

Alphabet == 1..AlphabetSize

\* unsigned comparison of two 32-bit values kept in two's-complement form
ULess(a, b) == IF (a < 0) = (b < 0) THEN a < b ELSE b < 0
ULessEq(a, b) == a = b \/ ULess(a, b)

\* tree_string[i]; a read outside 1..length yields a value equal to no byte
CharAt(T, i) == IF i \in 1..Len(T) THEN T[i] ELSE -1

\* With(v, F) is F applied to the value of v: v is evaluated once, where it
\* stands, like the right-hand side of a C assignment, and F sees the result.
With(v, F(_)) == CHOOSE r \in {F(x) : x \in {v}} : TRUE
With2(v, w, F(_, _)) == CHOOSE r \in {F(x, y) : x \in {v}, y \in {w}} : TRUE
With3(u, v, w, F(_, _, _)) ==
  CHOOSE r \in {F(x, y, t) : x \in {u}, y \in {v}, t \in {w}} : TRUE

\* ------------------------------------------------------------ suffix tree
create_node(father, start, end, position) ==
  [sons |-> NULL, right_sibling |-> NULL, left_sibling |-> NULL,
   suffix_link |-> NULL, father |-> father, path_position |-> position,
   edge_label_start |-> start, edge_label_end |-> end,
   strDepth |-> 0,
   annot |-> [minMax |-> 0, textPos |-> 0,
              optimisticMinMax |-> 0, optimisticTextPos |-> 0]]

RECURSIVE find_son_from(_, _, _, _)
find_son_from(ns, T, son, character) ==
  With(son, LAMBDA c :
    IF c = NULL THEN NULL
    ELSE IF CharAt(T, ns[c].edge_label_start) = character THEN c
    ELSE find_son_from(ns, T, ns[c].right_sibling, character))

find_son(ns, T, node, character) ==
  find_son_from(ns, T, ns[node].sons, character)

get_node_label_end(ns, e, node) ==
  IF ns[node].sons = NULL THEN e ELSE ns[node].edge_label_end

get_node_label_length(ns, e, node) ==
  get_node_label_end(ns, e, node) - ns[node].edge_label_start + 1

is_last_char_in_edge(ns, e, node, edge_pos) ==
  edge_pos = get_node_label_length(ns, e, node) - 1

connect_siblings(ns, left_sib, right_sib) ==
  With(IF left_sib # NULL
       THEN [ns EXCEPT ![left_sib].right_sibling = right_sib] ELSE ns,
       LAMBDA a :
    IF right_sib # NULL
    THEN [a EXCEPT ![right_sib].left_sibling = left_sib] ELSE a)

RECURSIVE last_sibling(_, _)
last_sibling(ns, first) ==
  With(first, LAMBDA son :
    IF ns[son].right_sibling = NULL THEN son
    ELSE last_sibling(ns, ns[son].right_sibling))

\* returns the new node sequence and the node the C function returns
apply_extension_rule_2(ns, node, edge_label_begin, edge_label_end, path_pos, edge_pos, type) ==
  IF type = "new_son"
  THEN With(Append(ns, create_node(node, edge_label_begin,
                                   edge_label_end, path_pos)), LAMBDA a :
       With(last_sibling(a, a[node].sons), LAMBDA son :
         [nodes |-> connect_siblings(a, son, Len(a)), ret |-> Len(a)]))
  ELSE With(Append(ns, create_node(ns[node].father,
                                   ns[node].edge_label_start,
                                   ns[node].edge_label_start + edge_pos,
                                   ns[node].path_position)), LAMBDA a :
       With(Len(a), LAMBDA new_internal :
       With([a EXCEPT ![node].edge_label_start = @ + edge_pos + 1], LAMBDA b :
       With(Append(b, create_node(new_internal, edge_label_begin,
                                  edge_label_end, path_pos)), LAMBDA c :
       With(connect_siblings(c, c[node].left_sibling, new_internal), LAMBDA d :
       With(connect_siblings(d, new_internal, d[node].right_sibling), LAMBDA f :
       With([f EXCEPT ![node].left_sibling = NULL], LAMBDA g :
       With(g[new_internal].father, LAMBDA fa :
       With(IF g[fa].sons = node
            THEN [g EXCEPT ![fa].sons = new_internal] ELSE g, LAMBDA h :
       With([h EXCEPT ![new_internal].sons = node,
                      ![node].father = new_internal], LAMBDA i :
         [nodes |-> connect_siblings(i, node, new_internal + 1),
          ret |-> new_internal]))))))))))

\* number of the first position edge_pos in 1..length-1 where the edge and
\* the string differ, or length when there is none (the for loop of
\* trace_single_edge)
RECURSIVE scan_edge(_, _, _, _, _)
scan_edge(T, edge_start, str_begin, from, length) ==
  With(from, LAMBDA edge_pos :
    IF edge_pos < length
       /\ CharAt(T, edge_start + edge_pos) = CharAt(T, str_begin + edge_pos)
    THEN scan_edge(T, edge_start, str_begin, edge_pos + 1, length)
    ELSE edge_pos)

trace_single_edge(ns, e, T, node, str_begin, str_end, type) ==
  With(find_son(ns, T, node, CharAt(T, str_begin)), LAMBDA cont_node :
    IF cont_node = NULL
    THEN [node |-> node,
          edge_pos |-> get_node_label_length(ns, e, node) - 1,
          chars_found |-> 0, search_done |-> 1]
    ELSE
    With2(get_node_label_length(ns, e, cont_node), str_end - str_begin + 1,
          LAMBDA length, str_len :
      IF type = "skip"
      THEN IF length <= str_len
           THEN [node |-> cont_node, edge_pos |-> length - 1,
                 chars_found |-> length,
                 search_done |-> IF length < str_len THEN 0 ELSE 1]
           ELSE [node |-> cont_node, edge_pos |-> str_len - 1,
                 chars_found |-> str_len, search_done |-> 1]
      ELSE With(IF str_len < length THEN str_len ELSE length, LAMBDA lim :
           With(scan_edge(T, ns[cont_node].edge_label_start, str_begin, 1,
                          lim), LAMBDA stop :
             IF stop < lim
             THEN [node |-> cont_node, edge_pos |-> stop - 1,
                   chars_found |-> stop, search_done |-> 1]
             ELSE [node |-> cont_node, edge_pos |-> stop - 1,
                   chars_found |-> stop,
                   search_done |-> IF stop < str_len THEN 0 ELSE 1]))))

RECURSIVE trace_string_loop(_, _, _, _, _, _, _, _)
trace_string_loop(ns, e, T, node, begin, str_end, type, found) ==
  With2(begin, found, LAMBDA str_begin, chars_found :
  With(trace_single_edge(ns, e, T, node, str_begin, str_end, type),
       LAMBDA r :
    IF r.search_done = 0
    THEN trace_string_loop(ns, e, T, r.node, str_begin + r.chars_found,
                           str_end, type, chars_found + r.chars_found)
    ELSE [node |-> r.node, edge_pos |-> r.edge_pos,
          chars_found |-> chars_found + r.chars_found]))

trace_string(ns, e, T, node, str_begin, str_end, type) ==
  trace_string_loop(ns, e, T, node, str_begin, str_end, type, 0)

\* pos is a record [node, edge_pos]
follow_suffix_link(ns, e, T, pos) ==
  IF pos.node = ROOT THEN pos
  ELSE IF ns[pos.node].suffix_link = NULL
          \/ ~ is_last_char_in_edge(ns, e, pos.node, pos.edge_pos)
  THEN IF ns[pos.node].father = ROOT
       THEN [node |-> ROOT, edge_pos |-> pos.edge_pos]
       ELSE With2(ns[pos.node].edge_label_start,
                  ns[pos.node].edge_label_start + pos.edge_pos,
                  LAMBDA gama_begin, gama_end :
            With(trace_string(ns, e, T, ns[ns[pos.node].father].suffix_link,
                              gama_begin, gama_end, "skip"), LAMBDA r :
              [node |-> r.node, edge_pos |-> r.edge_pos]))
  ELSE [node |-> ns[pos.node].suffix_link,
        edge_pos |-> get_node_label_length(ns, e, ns[pos.node].suffix_link) - 1]

\* variant of create_suffix_link that stores nothing
create_suffix_link_none(ns, node, link) == ns

create_suffix_link(ns, node, link) == [ns EXCEPT ![node].suffix_link = link]

\* The tracing step of SEA (lines 1014-1047): the position, chars_found and
\* str.begin after it, from the position pos1 the suffix link led to.
SEA_trace(ns, e, T, pos1, str_begin0, str_end) ==
  IF pos1.node = ROOT
  THEN With(trace_string(ns, e, T, ROOT, str_begin0, str_end, "no_skip"),
            LAMBDA tr :
         [pos |-> [node |-> tr.node, edge_pos |-> tr.edge_pos],
          chars_found |-> tr.chars_found, str_begin |-> str_begin0])
  ELSE IF is_last_char_in_edge(ns, e, pos1.node, pos1.edge_pos)
  THEN With(find_son(ns, T, pos1.node, CharAt(T, str_end)), LAMBDA tmp :
         IF tmp # NULL
         THEN [pos |-> [node |-> tmp, edge_pos |-> 0],
               chars_found |-> 1, str_begin |-> str_end]
         ELSE [pos |-> pos1, chars_found |-> 0, str_begin |-> str_end])
  ELSE IF CharAt(T, ns[pos1.node].edge_label_start + pos1.edge_pos + 1)
          = CharAt(T, str_end)
  THEN [pos |-> [node |-> pos1.node, edge_pos |-> pos1.edge_pos + 1],
        chars_found |-> 1, str_begin |-> str_end]
  ELSE [pos |-> pos1, chars_found |-> 0, str_begin |-> str_end]

\* SEA: one extension.  rule_applied is the caller's variable, which SEA
\* leaves untouched when neither rule 3 nor rule 2 applies (a leaf: rule 1).
SEA(ns, e, T, pos0, str_begin0, str_end, suffixless0, rule_applied0, after_rule_3) ==
  With(IF after_rule_3 = 0 THEN follow_suffix_link(ns, e, T, pos0)
       ELSE pos0, LAMBDA pos1 :
  With(SEA_trace(ns, e, T, pos1, str_begin0, str_end), LAMBDA t :
  With3(t.pos, t.chars_found, t.str_begin,
        LAMBDA pos2, chars_found, str_begin :
    IF chars_found = str_end - str_begin + 1
    THEN \* rule 3
         [nodes |-> IF suffixless0 # NULL
                    THEN create_suffix_link(ns, suffixless0,
                                            ns[pos2.node].father)
                    ELSE ns,
          pos |-> pos2, suffixless |-> NULL, rule_applied |-> 3]
    ELSE IF is_last_char_in_edge(ns, e, pos2.node, pos2.edge_pos)
            \/ pos2.node = ROOT
    THEN IF ns[pos2.node].sons # NULL
         THEN With(apply_extension_rule_2(ns, pos2.node,
                     str_begin + chars_found, str_end, str_begin0, 0,
                     "new_son"), LAMBDA r :
                [nodes |-> IF suffixless0 # NULL
                           THEN create_suffix_link(r.nodes, suffixless0,
                                                   pos2.node)
                           ELSE r.nodes,
                 pos |-> pos2, suffixless |-> NULL, rule_applied |-> 2])
         ELSE [nodes |-> ns, pos |-> pos2, suffixless |-> suffixless0,
               rule_applied |-> rule_applied0]
    ELSE With(apply_extension_rule_2(ns, pos2.node,
                str_begin + chars_found, str_end, str_begin0,
                pos2.edge_pos, "split"), LAMBDA r :
         With(IF suffixless0 # NULL
              THEN create_suffix_link(r.nodes, suffixless0, r.ret)
              ELSE r.nodes, LAMBDA a :
         With(get_node_label_length(a, e, r.ret) = 1
              /\ a[r.ret].father = ROOT, LAMBDA single :
           [nodes |-> IF single THEN [a EXCEPT ![r.ret].suffix_link = ROOT]
                      ELSE a,
            pos |-> [node |-> r.ret, edge_pos |-> pos2.edge_pos],
            suffixless |-> IF single THEN NULL ELSE r.ret,
            rule_applied |-> 2]))))))

\* the while loop of SPA; m is the construction state
\* [nodes, pos, suffixless, extension, repeated_extension]
RECURSIVE SPA_loop(_, _, _, _, _)
SPA_loop(m0, e, T, ph, rule_applied) ==
  With(m0, LAMBDA m :
    IF m.extension <= ph + 1
    THEN With(SEA(m.nodes, e, T, m.pos, m.extension, ph + 1,
                  m.suffixless, rule_applied, m.repeated_extension),
              LAMBDA r :
           IF r.rule_applied = 3
           THEN [nodes |-> r.nodes, pos |-> r.pos,
                 suffixless |-> r.suffixless, extension |-> m.extension,
                 repeated_extension |-> 1]
           ELSE SPA_loop([nodes |-> r.nodes, pos |-> r.pos,
                          suffixless |-> r.suffixless,
                          extension |-> m.extension + 1,
                          repeated_extension |-> 0],
                         e, T, ph, r.rule_applied))
    ELSE m)

\* SPA sets tree->e = phase+1 and runs the extensions of the phase
SPA(m, T, ph) == SPA_loop(m, ph + 1, T, ph, 0)

\* ------------------------------------------------- post-construction DFS
\* st is [nodes, inversePointers, maxStrDepth, num]
RECURSIVE dfsForInversePointers(_, _, _)
RECURSIVE dfs_children(_, _, _)
dfsForInversePointers(st0, node, depth) ==
  With(st0, LAMBDA st :
  With([st.nodes EXCEPT ![node].annot.minMax = UNSET,
                        ![node].annot.optimisticMinMax = UNSET,
                        ![node].strDepth = depth], LAMBDA a :
    IF a[node].sons = NULL
    THEN With(a[node].path_position, LAMBDA pp :
           [nodes |-> [a EXCEPT ![node].annot.optimisticTextPos = pp,
                                ![node].annot.textPos = pp],
            inversePointers |-> [st.inversePointers EXCEPT ![pp] = node],
            maxStrDepth |-> [st.maxStrDepth EXCEPT
                               ![pp] = pp + a[a[node].father].strDepth - 1],
            num |-> st.num + 1])
    ELSE dfs_children([st EXCEPT !.nodes =
                         [a EXCEPT ![node].annot.textPos = 0,
                                   ![node].annot.optimisticTextPos = 0]],
                      a[node].sons, depth)))

\* the while loop over the sons of a node of string depth `depth`
dfs_children(st0, child, depth) ==
  With2(st0, child, LAMBDA st, currentChild :
    IF currentChild = NULL THEN st
    ELSE dfs_children(
           dfsForInversePointers(st, currentChild,
              depth + (st.nodes[currentChild].edge_label_end
                       - st.nodes[currentChild].edge_label_start) + 1),
           st.nodes[currentChild].right_sibling, depth))

\* variant of prefix_max that copies the previous entry unconditionally
RECURSIVE prefix_max_copy(_, _, _)
prefix_max_copy(msd0, from, length) ==
  With2(msd0, from, LAMBDA msd, i :
    IF i > length THEN msd
    ELSE prefix_max_copy([msd EXCEPT ![i] = msd[i - 1]], i + 1, length))

\* second pass of ST_CreateTree: make maxStrDepth prefix-max monotone
RECURSIVE prefix_max(_, _, _)
prefix_max(msd0, from, length) ==
  With2(msd0, from, LAMBDA msd, i :
    IF i > length THEN msd
    ELSE prefix_max(IF ULess(msd[i], msd[i - 1])
                    THEN [msd EXCEPT ![i] = msd[i - 1]] ELSE msd,
                    i + 1, length))

\* ------------------------------------------------------- segment tree S
\* S is kept as the array of its leaves.
segmUpdate(S, i, v) == [S EXCEPT ![i] = v]

\* index of a position of S[l..r] holding the capped maximum: the first
\* position whose value is >= C when there is one, else the first position
\* of the maximum.  For l > r the range is empty and l is returned.
RECURSIVE cappedMax_scan(_, _, _, _, _)
cappedMax_scan(S, from, r, C, best0) ==
  With2(from, best0, LAMBDA i, best :
    IF i > r THEN best
    ELSE IF S[i] >= C THEN i
    ELSE cappedMax_scan(S, i + 1, r, C, IF S[i] > S[best] THEN i ELSE best))

cappedMax(S, l, r, C) == IF l > r THEN l ELSE cappedMax_scan(S, l, r, C, l)

\* ---------------------------------------------------- annotation engine
RECURSIVE getMinMax_scan(_, _, _, _)
getMinMax_scan(ns, Dd, result, current) ==
  With2(result, current, LAMBDA resultSon, currentSon :
    IF currentSon = NULL THEN resultSon
    ELSE With2(ns[resultSon].annot, ns[currentSon].annot, LAMBDA r, c :
           getMinMax_scan(ns, Dd,
             IF ULess(c.optimisticMinMax, r.optimisticMinMax)
                \/ (r.optimisticMinMax = c.optimisticMinMax
                    /\ Dd[r.optimisticTextPos] < Dd[c.optimisticTextPos])
             THEN currentSon ELSE resultSon,
             ns[currentSon].right_sibling)))

getMinMaxOfChildren(ns, Dd, node) ==
  getMinMax_scan(ns, Dd, ns[node].sons, ns[node].sons)

\* variant of commit_annot whose range stops one position early
commit_annot_short(an, strDepth, tp, finalPos, U, S, Dd, C) ==
  IF tp + strDepth - 1 <= finalPos
  THEN With(U[cappedMax(S, tp, tp + strDepth - 2, C)], LAMBDA cost :
         IF ULess(cost, an.minMax)
         THEN [an EXCEPT !.minMax = cost, !.textPos = tp] ELSE an)
  ELSE an

\* lines 692-722: the committed pair (minMax, textPos) of parent
commit_annot(an, strDepth, tp, finalPos, U, S, Dd, C) ==
  IF tp + strDepth - 1 <= finalPos
  THEN With(U[cappedMax(S, tp, tp + strDepth - 1, C)], LAMBDA cost :
       With([an EXCEPT !.minMax = cost, !.textPos = tp], LAMBDA take :
         IF an.minMax = C
         THEN IF cost < C THEN take
              ELSE IF Dd[tp] # -1 /\ Dd[tp] > Dd[an.textPos]
                   THEN take ELSE an
         ELSE IF ULess(cost, an.minMax) THEN take ELSE an))
  ELSE an

\* variant of first_optimistic that leaves optimisticTextPos alone
first_optimistic_nopos(an, tp, minMaxOfRange) ==
  [an EXCEPT !.optimisticMinMax = minMaxOfRange]

\* lines 724-728: the first optimistic pair of a node is the pair of the walk
first_optimistic(an, tp, minMaxOfRange) ==
  [an EXCEPT !.optimisticMinMax = minMaxOfRange, !.optimisticTextPos = tp]

\* variant of optimistic_annot that always copies the committed pair
optimistic_annot_committed(an, h, tp, minMaxOfRange, Dd, C) ==
  [an EXCEPT !.optimisticMinMax = an.minMax, !.optimisticTextPos = an.textPos]

\* lines 724-773: the optimistic pair of parent; h is the annotation of the
\* son returned by getMinMaxOfChildren
optimistic_annot(an, h, tp, minMaxOfRange, Dd, C) ==
  With2([an EXCEPT !.optimisticMinMax = h.optimisticMinMax,
                   !.optimisticTextPos = h.optimisticTextPos],
        [an EXCEPT !.optimisticMinMax = an.minMax,
                   !.optimisticTextPos = an.textPos],
        LAMBDA fromSon, fromCommitted :
    IF an.optimisticMinMax = UNSET
    THEN first_optimistic(an, tp, minMaxOfRange)
    ELSE IF an.optimisticMinMax = C
    THEN IF h.optimisticMinMax = C
         THEN IF Dd[h.optimisticTextPos] > Dd[an.optimisticTextPos]
              THEN fromSon ELSE fromCommitted
         ELSE fromSon
    ELSE IF ULess(h.optimisticMinMax, an.minMax)
         THEN fromSon ELSE fromCommitted)

\* the while loop of changeAnnotationFromLeaf
RECURSIVE annot_walk(_, _, _, _, _, _, _, _, _, _)
annot_walk(ns0, node, tp, finalPos, len, minMaxOfRange, U, S, Dd, C) ==
  With2(ns0, node, LAMBDA ns, parent :
    IF parent # NULL /\ ns[parent].strDepth > len
    THEN With(getMinMaxOfChildren(ns, Dd, parent), LAMBDA newMinMaxHolder :
         With(commit_annot(ns[parent].annot, ns[parent].strDepth, tp,
                           finalPos, U, S, Dd, C), LAMBDA a1 :
         With(optimistic_annot(a1, ns[newMinMaxHolder].annot, tp,
                               minMaxOfRange, Dd, C), LAMBDA a2 :
           annot_walk([ns EXCEPT ![parent].annot = a2], ns[parent].father,
                      tp, finalPos, len, minMaxOfRange, U, S, Dd, C))))
    ELSE ns)

changeAnnotationFromLeaf(ns, inv, tp, finalPos, len, minMaxOfRange, U, S, Dd, C) ==
  With(inv[tp], LAMBDA leaf :
  With(IF ULess(ns[leaf].annot.minMax, minMaxOfRange)
          \/ ns[leaf].annot.minMax = UNSET
       THEN [ns EXCEPT ![leaf].annot.minMax = minMaxOfRange,
                       ![leaf].annot.optimisticMinMax = minMaxOfRange]
       ELSE ns, LAMBDA a :
    annot_walk(a, a[leaf].father, tp, finalPos, len, minMaxOfRange,
               U, S, Dd, C)))

\* the for loop of propagateAnnotation; r is [nodes, crashed].  A leaf
\* pointer that was never stored (inversePointers[i] = NULL) is a wild
\* pointer: following it is a memory fault.
RECURSIVE propagate_loop(_, _, _, _, _, _, _, _, _, _, _)
propagate_loop(r0, inv, msd, from, tp, len, cur0, U, S, Dd, C) ==
  With3(r0, from, cur0, LAMBDA r, i, cur :
    IF i <= 0 THEN r
    ELSE With(IF cur < U[i] THEN U[i] ELSE cur, LAMBDA m :
           IF ULess(msd[i], tp) THEN r
           ELSE IF inv[i] = NULL THEN [r EXCEPT !.crashed = TRUE]
           ELSE propagate_loop(
                  [r EXCEPT !.nodes = changeAnnotationFromLeaf(r.nodes, inv,
                                        i, tp + len, tp - i, m, U, S, Dd, C)],
                  inv, msd, i - 1, tp, len, m, U, S, Dd, C)))

propagateAnnotation(ns, inv, msd, tp, len, U, S, Dd, C) ==
  propagate_loop([nodes |-> ns, crashed |-> FALSE], inv, msd, tp + len,
                 tp, len, 0, U, S, Dd, C)

\* ------------------------------------------------------------ the query
\* W[j] is tree_string[wstart + j].  The result is the MATCH [length, pos]
\* with two bookkeeping fields: abort is the exit(1) of line 610, fromD
\* records that the length was taken from D[] (lines 570-571).
RECURSIVE walk_edge(_, _, _, _, _, _)
walk_edge(T, wstart, P, j0, k0, node_label_end) ==
  With2(j0, k0, LAMBDA j, k :
    IF j < P /\ k <= node_label_end /\ CharAt(T, k) = CharAt(T, wstart + j)
    THEN walk_edge(T, wstart, P, j + 1, k + 1, node_label_end)
    ELSE [j |-> j, k |-> k])

RECURSIVE find_loop(_, _, _, _, _, _, _, _, _, _)
find_loop(ns, e, T, Dd, C, wstart, P, node0, j0, match0) ==
  With3(node0, j0, match0, LAMBDA node, j, currentMatch :
    IF node = NULL THEN currentMatch
    ELSE
    With(ns[node].annot, LAMBDA an :
      IF an.optimisticMinMax = UNSET THEN currentMatch
      ELSE IF an.optimisticMinMax = C
      THEN IF Dd[an.optimisticTextPos] > currentMatch.length
           THEN [currentMatch EXCEPT !.length = Dd[an.optimisticTextPos],
                                     !.pos = an.optimisticTextPos,
                                     !.fromD = TRUE]
           ELSE currentMatch
      ELSE
      With(get_node_label_end(ns, e, node), LAMBDA node_label_end :
      With(walk_edge(T, wstart, P, j, ns[node].edge_label_start,
                     node_label_end), LAMBDA w :
        IF an.optimisticTextPos = 0
        THEN [currentMatch EXCEPT !.length = w.j, !.abort = TRUE]
        ELSE With([currentMatch EXCEPT !.length = w.j,
                                       !.pos = an.optimisticTextPos],
                  LAMBDA m :
               IF w.j = P THEN m
               ELSE IF w.k > node_label_end
               THEN find_loop(ns, e, T, Dd, C, wstart, P,
                              find_son(ns, T, node, CharAt(T, wstart + w.j)),
                              w.j, m)
               ELSE m)))))

ST_FindSubstring(ns, e, T, Dd, C, wstart, P) ==
  find_loop(ns, e, T, Dd, C, wstart, P,
            find_son(ns, T, ROOT, CharAt(T, wstart)), 0,
            [length |-> 0, pos |-> 0, abort |-> FALSE, fromD |-> FALSE])

\* ---------------------------------------------------------- the program
VARIABLES
  tree_string,          \* the text with the sentinel appended, 1-based
  COST,                 \* tree->COST, the cost bound C (argv[2])
  nodes,                \* the node arena
  e,                    \* tree->e, virtual end of all leaves
  suffixless,           \* the global `suffixless`
  pos,                  \* ST_CreateTree's pos: [node, edge_pos]
  phase, extension, repeated_extension,
  inversePointers, maxStrDepth, costArray, segm, D,
  textPos, z, positionOfPreviousC,      \* locals of parseBLZ
  currentPhrase, k, i,                  \* locals of one parser iteration
  out,                  \* the phrases printed so far
  selfTest,             \* result of ST_SelfTest, <<>> until it has run
  argc,                 \* main's argc
  file,                 \* the file named by argv[1]: does it open, its bytes
  exit_status,          \* the status the process ended with, -1 while running
  header,               \* the number printed in the "n = " line, 0 before it
  pc                    \* control location

vars == <<tree_string, COST, nodes, e, suffixless, pos, phase, extension,
          repeated_extension, inversePointers, maxStrDepth, costArray, segm,
          D, textPos, z, positionOfPreviousC, currentPhrase, k, i, out,
          selfTest, argc, file, exit_status, header, pc>>

length == Len(tree_string)      \* tree->length = n + 1
n == length - 1

\* all texts of a given length over the symbols A
RECURSIVE TextsOfLen(_, _)
TextsOfLen(A, len) ==
  IF len = 0 THEN {<<>>}
  ELSE {Append(t, c) : t \in TextsOfLen(A, len - 1), c \in A}

\* every text of up to MaxLen bytes over the alphabet
Texts == UNION {TextsOfLen(Alphabet, len) : len \in 1..MaxLen}

\* the texts of pairwise distinct bytes 0x01..m
DistinctTexts == {[q \in 1..m |-> q] : m \in 1..MaxDistinct}

\* every text of exactly LongLen bytes over two symbols
LongTexts == TextsOfLen({1, 2}, LongLen)

\* the inputs <<text, cost bound>> of the two specifications
Inputs == (Texts \X (1..MaxCost))
          \cup (DistinctTexts \X ((1..MaxCost) \cup {ScenarioCost}))
LongInputs == LongTexts \X {1}

\* Memory obtained from malloc and never written holds any value.  Only a
\* text of length 1 (no pass of the phase loop) leaves tree->e and an entry
\* of maxStrDepth[1..n+1] unwritten; one value below every text position
\* and one above stand for the two ways the comparison of line 811 can go.
GarbageValues(text) == IF Len(text) = 1 THEN {0, Len(text) + 1} ELSE {0}

\* State at the head of the phase loop of ST_CreateTree (line 1296) for
\* text `text`, with the cost bound cost and uninitialised words holding g.
InitFor(text, cost, g) ==
  LET len == Len(text) + 1 IN
  /\ tree_string = Append(text, SENTINEL)
  /\ COST = cost
  /\ nodes = << [create_node(NULL, 0, 0, 0) EXCEPT !.sons = 2],
                create_node(ROOT, 1, len, 1) >>
  /\ e = g
  /\ suffixless = NULL
  /\ pos = [node |-> ROOT, edge_pos |-> 0]
  /\ phase = 2
  /\ extension = 2
  /\ repeated_extension = 0
  /\ inversePointers = [q \in 0..len |-> NULL]
  /\ maxStrDepth = [q \in 0..len |-> g]
  /\ costArray = [q \in 0..len |-> len]
  /\ segm = [q \in 1..len |-> len]
  /\ D = [q \in 0..len |-> -1]
  /\ textPos = 1
  /\ z = 0
  /\ positionOfPreviousC = 0
  /\ currentPhrase = [length |-> 0, pos |-> 0, abort |-> FALSE,
                      fromD |-> FALSE]
  /\ k = 0
  /\ i = 0
  /\ out = <<>>
  /\ selfTest = <<>>
  /\ argc = 3
  /\ file = [exists |-> TRUE, bytes |-> text]
  /\ exit_status = -1
  /\ header = 0
  /\ pc = "construct"

Init == \E inp \in Inputs :
          \E g \in GarbageValues(inp[1]) : InitFor(inp[1], inp[2], g)

InitLong == \E inp \in LongInputs : InitFor(inp[1], inp[2], 0)

treeVars == <<nodes, e, suffixless, pos, phase, extension,
              repeated_extension>>
parseVars == <<textPos, z, positionOfPreviousC, currentPhrase, k, i, out>>
mainVars == <<argc, file, exit_status, header>>

\* one pass of the phase loop of ST_CreateTree: a call of SPA
Phase ==
  /\ pc = "construct"
  /\ phase < length
  /\ \E m \in {SPA([nodes |-> nodes, pos |-> pos, suffixless |-> suffixless,
                    extension |-> extension,
                    repeated_extension |-> repeated_extension],
                   tree_string, phase)} :
         /\ nodes' = m.nodes
         /\ pos' = m.pos
         /\ suffixless' = m.suffixless
         /\ extension' = m.extension
         /\ repeated_extension' = m.repeated_extension
  /\ e' = phase + 1
  /\ phase' = phase + 1
  /\ UNCHANGED <<tree_string, COST, inversePointers, maxStrDepth, costArray,
                 segm, D, selfTest, pc>>
  /\ UNCHANGED parseVars
  /\ UNCHANGED mainVars

\* the rest of ST_CreateTree after the phase loop (lines 1302-1320)
PostProcess ==
  /\ pc = "construct"
  /\ phase >= length
  /\ \E st \in {dfsForInversePointers(
                   [nodes |-> nodes, inversePointers |-> inversePointers,
                    maxStrDepth |-> maxStrDepth, num |-> 0], ROOT, 0)} :
         /\ nodes' = st.nodes
         /\ inversePointers' = st.inversePointers
         /\ maxStrDepth' = prefix_max(st.maxStrDepth, 2, length)
  /\ D' = [q \in 0..length |-> -1]
  /\ pc' = "created"
  /\ UNCHANGED <<tree_string, COST, e, suffixless, pos, phase, extension,
                 repeated_extension, costArray, segm, selfTest>>
  /\ UNCHANGED parseVars
  /\ UNCHANGED mainVars

\* ST_SelfTest on the tree ST_CreateTree returned: the first (k, j) in loop
\* order whose search has length 0 makes it return 0, else it returns 1
SelfTestFails(j, kk) ==
  ST_FindSubstring(nodes, e, tree_string, D, COST, j, kk - j + 1).length = 0

\* the two nested for loops of ST_SelfTest
RECURSIVE SelfTest_loop(_, _)
SelfTest_loop(k0, j0) ==
  With2(k0, j0, LAMBDA kk, j :
    IF kk >= length THEN [result |-> 1, j |-> 0, k |-> 0]
    ELSE IF j > kk THEN SelfTest_loop(kk + 1, 1)
    ELSE IF SelfTestFails(j, kk) THEN [result |-> 0, j |-> j, k |-> kk]
    ELSE SelfTest_loop(kk, j + 1))

ST_SelfTest == SelfTest_loop(1, 1)

SelfTest ==
  /\ pc = "created"
  /\ selfTest' = ST_SelfTest
  /\ pc' = "tested"
  /\ UNCHANGED <<tree_string, COST, inversePointers, maxStrDepth, costArray,
                 segm, D>>
  /\ UNCHANGED treeVars
  /\ UNCHANGED parseVars
  /\ UNCHANGED mainVars

\* main goes on to parseBLZ (line 1569), which prints the "n = " line
\* (line 823)
StartParse ==
  /\ pc = "created"
  /\ header' = length
  /\ pc' = "loop"
  /\ UNCHANGED <<argc, file, exit_status>>
  /\ UNCHANGED <<tree_string, COST, inversePointers, maxStrDepth, costArray,
                 segm, D, selfTest>>
  /\ UNCHANGED treeVars
  /\ UNCHANGED parseVars

\* variant of loop_cond that stops before the terminator position
loop_cond_strict(tp, len) == tp < len

\* the loop condition of parseBLZ (line 824)
loop_cond(tp, len) == tp <= len

\* head of the while loop and the query (lines 824-828)
Query ==
  /\ pc = "loop"
  /\ loop_cond(textPos, length)
  /\ currentPhrase' = ST_FindSubstring(nodes, e, tree_string, D, COST,
                                       textPos, length)
  /\ pc' = IF currentPhrase'.abort THEN "abort_source0" ELSE "copy"
  /\ exit_status' = IF currentPhrase'.abort THEN 1 ELSE exit_status
  /\ UNCHANGED <<argc, file, header>>
  /\ z' = z + 1
  /\ k' = 0
  /\ i' = 0
  /\ UNCHANGED <<tree_string, COST, inversePointers, maxStrDepth, costArray,
                 segm, D, selfTest, textPos, positionOfPreviousC, out>>
  /\ UNCHANGED treeVars

\* variant of fill_D that runs down to the first position
RECURSIVE fill_D_whole(_, _, _)
fill_D_whole(D0, from, prevC) ==
  With2(D0, from, LAMBDA Dd, currentPos :
    IF currentPos > 0
    THEN fill_D_whole([Dd EXCEPT ![currentPos] = Dd[currentPos + 1] + 1],
                      currentPos - 1, prevC)
    ELSE Dd)

\* the inner for loop of lines 839-842
RECURSIVE fill_D(_, _, _)
fill_D(D0, from, prevC) ==
  With2(D0, from, LAMBDA Dd, currentPos :
    IF currentPos > prevC
    THEN fill_D([Dd EXCEPT ![currentPos] = Dd[currentPos + 1] + 1],
                currentPos - 1, prevC)
    ELSE Dd)

\* variant of next_k without the wrap of line 850
next_k_nowrap(srcPos, kk, tp) == kk + 1

\* lines 849-850: advance k, wrapping to 0 when the source reaches textPos
next_k(srcPos, kk, tp) == IF srcPos + kk + 1 = tp THEN 0 ELSE kk + 1

\* one pass of the for loop over the bytes of the phrase (lines 832-851)
CopyByte ==
  /\ pc = "copy"
  /\ i < currentPhrase.length
  /\ LET dst == textPos + i
         src == currentPhrase.pos + k
     IN  IF dst \notin 0..length \/ src \notin 0..length
         THEN /\ pc' = "crash"
              /\ UNCHANGED <<costArray, segm, D, positionOfPreviousC, k, i>>
         ELSE LET u == costArray[src] + 1 IN
              /\ costArray' = [costArray EXCEPT ![dst] = u]
              /\ IF u = COST
                 THEN /\ D' = fill_D([D EXCEPT ![dst] = 0], dst - 1,
                                     positionOfPreviousC)
                      /\ positionOfPreviousC' = dst
                 ELSE UNCHANGED <<D, positionOfPreviousC>>
              /\ segm' = segmUpdate(segm, dst, u)
              /\ IF u > COST
                 THEN /\ pc' = "abort_cost"
                      /\ UNCHANGED <<k, i>>
                 ELSE /\ k' = next_k(currentPhrase.pos, k, textPos)
                      /\ i' = i + 1
                      /\ pc' = "copy"
  /\ exit_status' = IF pc' = "abort_cost" THEN 1 ELSE exit_status
  /\ UNCHANGED <<tree_string, COST, inversePointers, maxStrDepth, selfTest,
                 textPos, z, currentPhrase, out, argc, file, header>>
  /\ UNCHANGED treeVars

\* variant of set_literal that leaves the cost array alone
set_literal_skip(U, lp) == U

\* line 852: the literal costs 0
set_literal(U, lp) == [U EXCEPT ![lp] = 0]

\* the literal position (lines 852-854)
Literal ==
  /\ pc = "copy"
  /\ i >= currentPhrase.length
  /\ LET lp == textPos + currentPhrase.length
     IN  IF lp \notin 0..length
         THEN /\ pc' = "crash"
              /\ UNCHANGED <<costArray, segm>>
         ELSE /\ costArray' = set_literal(costArray, lp)
              /\ segm' = segmUpdate(segm, lp, 0)
              /\ pc' = "propagate"
  /\ UNCHANGED <<tree_string, COST, inversePointers, maxStrDepth, D,
                 selfTest>>
  /\ UNCHANGED treeVars
  /\ UNCHANGED parseVars
  /\ UNCHANGED mainVars

\* line 855
Propagate ==
  /\ pc = "propagate"
  /\ \E r \in {propagateAnnotation(nodes, inversePointers, maxStrDepth,
                                   textPos, currentPhrase.length, costArray,
                                   segm, D, COST)} :
         /\ nodes' = r.nodes
         /\ pc' = IF r.crashed THEN "crash" ELSE "emit"
  /\ UNCHANGED <<tree_string, COST, e, suffixless, pos, phase, extension,
                 repeated_extension, inversePointers, maxStrDepth, costArray,
                 segm, D, selfTest>>
  /\ UNCHANGED parseVars
  /\ UNCHANGED mainVars

\* variant of next_textPos that does not step over the literal
next_textPos_copy_only(tp, len) == tp + len

\* line 865: the next phrase starts after the copy and its literal
next_textPos(tp, len) == tp + len + 1

\* lines 866-867: advance textPos and print the phrase
Emit ==
  /\ pc = "emit"
  /\ textPos' = next_textPos(textPos, currentPhrase.length)
  /\ out' = Append(out, [src |-> currentPhrase.pos - 1,
                         len |-> currentPhrase.length,
                         lit |-> CharAt(tree_string, textPos' - 1)])
  /\ pc' = "loop"
  /\ UNCHANGED <<tree_string, COST, inversePointers, maxStrDepth, costArray,
                 segm, D, selfTest, z, positionOfPreviousC, currentPhrase,
                 k, i>>
  /\ UNCHANGED treeVars
  /\ UNCHANGED mainVars

\* the loop condition fails: parseBLZ prints z and returns (lines 870-877)
\* and main returns 0 (line 1577)
Finish ==
  /\ pc = "loop"
  /\ ~ loop_cond(textPos, length)
  /\ pc' = "done"
  /\ exit_status' = 0
  /\ UNCHANGED <<argc, file, header>>
  /\ UNCHANGED <<tree_string, COST, inversePointers, maxStrDepth, costArray,
                 segm, D, selfTest>>
  /\ UNCHANGED treeVars
  /\ UNCHANGED parseVars

Next ==
  \/ Phase
  \/ PostProcess
  \/ SelfTest
  \/ StartParse
  \/ Query
  \/ CopyByte
  \/ Literal
  \/ Propagate
  \/ Emit
  \/ Finish

Spec == Init /\ [][Next]_vars

\* the same program on the long texts
SpecLong == InitLong /\ [][Next]_vars

\* ------------------------------------------------------------------ main
\* every file content of up to MainLen bytes; the byte 0 may occur in it
Payloads == UNION {TextsOfLen(Alphabet \cup {SENTINEL}, len) : len \in 1..MainLen}

\* State at the entry of main: argc words on the command line, a file that
\* opens or not, the cost bound of argv[2], and no tree yet.
InitMain ==
  /\ argc \in 1..3
  /\ file \in {[exists |-> FALSE, bytes |-> <<>>]} \cup {[exists |-> TRUE, bytes |-> p] : p \in Payloads}
  /\ COST \in 1..MaxCost
  /\ tree_string = <<>>
  /\ nodes = <<>>
  /\ e = 0
  /\ suffixless = NULL
  /\ pos = [node |-> NULL, edge_pos |-> 0]
  /\ phase = 0
  /\ extension = 0
  /\ repeated_extension = 0
  /\ inversePointers = <<>>
  /\ maxStrDepth = <<>>
  /\ costArray = <<>>
  /\ segm = <<>>
  /\ D = <<>>
  /\ textPos = 1
  /\ z = 0
  /\ positionOfPreviousC = 0
  /\ currentPhrase = [length |-> 0, pos |-> 0, abort |-> FALSE, fromD |-> FALSE]
  /\ k = 0
  /\ i = 0
  /\ out = <<>>
  /\ selfTest = <<>>
  /\ exit_status = -1
  /\ header = 0
  /\ pc = "main"

\* variant of has_zeros that starts its scan at the second byte
has_zeros_from_second(str, len) == \E q \in 1..(len - 1) : str[q + 1] = 0

\* the scan of lines 1546-1553 over str[0..len-1] (str is 0-based in the code)
has_zeros(str, len) == \E q \in 0..(len - 1) : str[q + 1] = 0

\* main up to the call of ST_CreateTree (lines 1522-1555): the usage check,
\* fopen, the malloc of the buffer (which may fail), fread, the scan for
\* zero bytes; each way out records the status the process ends with
Main ==
  /\ pc = "main"
  /\ \E malloc_ok \in BOOLEAN :
        \E r \in {IF argc < 3 THEN [pc |-> "usage", status |-> 1]
                  ELSE IF ~ file.exists THEN [pc |-> "cant_open", status |-> 0]
                  ELSE IF ~ malloc_ok THEN [pc |-> "out_of_memory", status |-> 0]
                  ELSE IF has_zeros(file.bytes, Len(file.bytes)) THEN [pc |-> "zeros_inside", status |-> 1]
                  ELSE [pc |-> "loaded", status |-> -1]} :
           /\ pc' = r.pc
           /\ exit_status' = r.status
  /\ UNCHANGED <<tree_string, COST, inversePointers, maxStrDepth, costArray,
                 segm, D, selfTest, argc, file, header>>
  /\ UNCHANGED treeVars
  /\ UNCHANGED parseVars

\* ST_CreateTree up to the head of the phase loop (lines 1231-1293): the
\* malloc of the tree (which may fail), the arrays, the root and its first
\* leaf
CreateTree ==
  /\ pc = "loaded"
  /\ \E malloc_ok \in BOOLEAN, g \in GarbageValues(file.bytes), len \in {Len(file.bytes) + 1} :
        IF ~ malloc_ok
        THEN /\ pc' = "out_of_memory"
             /\ exit_status' = 0
             /\ UNCHANGED <<tree_string, inversePointers, maxStrDepth, costArray, segm, D>>
             /\ UNCHANGED treeVars
        ELSE /\ tree_string' = Append(file.bytes, SENTINEL)
             /\ nodes' = << [create_node(NULL, 0, 0, 0) EXCEPT !.sons = 2],
                            create_node(ROOT, 1, len, 1) >>
             /\ e' = g
             /\ suffixless' = NULL
             /\ pos' = [node |-> ROOT, edge_pos |-> 0]
             /\ phase' = 2
             /\ extension' = 2
             /\ repeated_extension' = 0
             /\ inversePointers' = [q \in 0..len |-> NULL]
             /\ maxStrDepth' = [q \in 0..len |-> g]
             /\ costArray' = [q \in 0..len |-> len]
             /\ segm' = [q \in 1..len |-> len]
             /\ D' = [q \in 0..len |-> -1]
             /\ pc' = "construct"
             /\ UNCHANGED exit_status
  /\ UNCHANGED <<COST, selfTest, argc, file, header>>
  /\ UNCHANGED parseVars

\* the malloc of create_node fails while a phase adds a node (lines 141-146)
NodeAllocFails ==
  /\ pc = "construct"
  /\ phase < length
  /\ \E m \in {SPA([nodes |-> nodes, pos |-> pos, suffixless |-> suffixless,
                    extension |-> extension,
                    repeated_extension |-> repeated_extension],
                   tree_string, phase)} : Len(m.nodes) > Len(nodes)
  /\ pc' = "out_of_memory"
  /\ exit_status' = 0
  /\ UNCHANGED <<tree_string, COST, inversePointers, maxStrDepth, costArray,
                 segm, D, selfTest, argc, file, header>>
  /\ UNCHANGED treeVars
  /\ UNCHANGED parseVars

NextMain ==
  \/ Main
  \/ CreateTree
  \/ NodeAllocFails
  \/ Next

\* the whole program, from the entry of main
SpecMain == InitMain /\ [][NextMain]_vars

\* the steps of the parser loop
ParserStep == Query \/ CopyByte \/ Literal \/ Propagate \/ Emit \/ Finish

\* the program as a running process: parseBLZ is sequential code, so a step
\* of the parser that can be taken is taken
SpecLive == Init /\ [][Next]_vars /\ WF_vars(ParserStep)

\* ------------------------------------------------------------ properties
\* text position at which the idx-th printed phrase starts
RECURSIVE StartOf(_)
StartOf(idx) ==
  IF idx = 1 THEN 1 ELSE StartOf(idx - 1) + out[idx - 1].len + 1

\* LZ77 decoding of a phrase list: each phrase copies len bytes from the
\* 1-based source src+1 of the buffer decoded so far (a source byte may be
\* one the phrase itself produced), then appends its literal.  A source
\* outside the buffer decodes to the byte -2, which no text contains.
RECURSIVE CopyBytes(_, _, _)
CopyBytes(buf, from, cnt) ==
  IF cnt <= 0 THEN buf
  ELSE CopyBytes(Append(buf, IF from \in 1..Len(buf) THEN buf[from] ELSE -2),
                 from + 1, cnt - 1)

RECURSIVE Decode(_, _)
Decode(phrases, upto) ==
  IF upto = 0 THEN <<>>
  ELSE Append(CopyBytes(Decode(phrases, upto - 1), phrases[upto].src + 1,
                        phrases[upto].len),
              phrases[upto].lit)

\* C1: the phrases printed so far decode to the text parsed so far
\* (positions 1..textPos-1 of the text with its terminator), each phrase's
\* literal is the text byte after its copy, and when parseBLZ returns the
\* phrases decode to the whole text T[1..n+1]; this covers phrases whose
\* length was taken from D[] without comparing edge characters.
C1_PhraseReconstruction ==
  /\ Decode(out, Len(out)) = SubSeq(tree_string, 1, StartOf(Len(out) + 1) - 1)
  /\ \A idx \in 1..Len(out) :
        out[idx].lit = CharAt(tree_string, StartOf(idx) + out[idx].len)
  /\ pc \in {"loop", "done"} => StartOf(Len(out) + 1) = textPos
  /\ pc = "done" => Decode(out, Len(out)) = tree_string

\* a phrase of positive length taken from D[] has been printed
C1_Witness ==
  /\ pc = "loop"
  /\ Len(out) > 0
  /\ currentPhrase.fromD
  /\ currentPhrase.length > 0
  /\ out[Len(out)].len = currentPhrase.length

\* C2: when parseBLZ terminates, by returning or through the exit of its
\* cost check (line 848), every position 1..n+1 has cost at most C.
C2_CostBound ==
  pc \in {"done", "abort_cost"} =>
     \A q \in 1..length : costArray[q] <= COST

\* the parse has returned and some position has reached the bound
C2_Witness ==
  /\ pc = "done"
  /\ \E q \in 1..length : costArray[q] = COST

\* C3: the match returned by the query is a longest admissible one: no
\* earlier occurrence of the phrase extended by one character lies in the
\* parsed prefix with every source position of cost below C.
C3_Maximality ==
  (pc = "copy" /\ i = 0) =>
     LET L == currentPhrase.length IN
     ~ \E q \in 1..(textPos - 1) :
          /\ q + L < textPos
          /\ textPos + L <= length
          /\ \A b \in 0..L : /\ tree_string[q + b] = tree_string[textPos + b]
                             /\ costArray[q + b] < COST

\* C4: every byte of a printed phrase has the cost of its source byte plus
\* one, the source index wrapping inside [src, textPos-1].
C4_CostRecurrence ==
  \A idx \in 1..Len(out) :
     LET tp == StartOf(idx)
         src == out[idx].src + 1
     IN  \A b \in 0..(out[idx].len - 1) :
            /\ 1 <= src /\ src < tp
            /\ costArray[tp + b] = costArray[src + (b % (tp - src))] + 1

\* a printed phrase is longer than the distance to its source (the source
\* index has wrapped)
C4_Witness ==
  /\ pc = "done"
  /\ \E idx \in 1..Len(out) :
        out[idx].len > StartOf(idx) - (out[idx].src + 1)

\* C5: the literal position of every printed phrase has cost 0, also at the
\* end of the parse.
C5_LiteralCost ==
  /\ \A idx \in 1..Len(out) : costArray[StartOf(idx) + out[idx].len] = 0
  /\ pc \in {"propagate", "emit"} =>
        costArray[textPos + currentPhrase.length] = 0

\* the parse has returned after a phrase of positive length that is not the
\* last one
C5_Witness ==
  /\ pc = "done"
  /\ \E idx \in 1..(Len(out) - 1) : out[idx].len > 0

\* C6: on the tree ST_CreateTree returns, before any annotation has been
\* propagated, every substring T[j..k] of the text is found with its full
\* length.
C6_ConstructionCorrectness ==
  pc = "created" =>
     \A j \in 1..n : \A kk \in j..n :
        ST_FindSubstring(nodes, e, tree_string, D, COST, j,
                         kk - j + 1).length = kk - j + 1

\* the bytes 1..n of the text are pairwise distinct
DistinctBytes ==
  \A a \in 1..n : \A b \in 1..n : a # b => tree_string[a] # tree_string[b]

\* C7 as stated: on a text of n pairwise distinct bytes every phrase has
\* length 0 and the parse ends with z = n.
C7_DistinctCountN ==
  (pc = "done" /\ DistinctBytes) =>
     /\ z = n
     /\ \A idx \in 1..Len(out) : out[idx].len = 0

\* C7 amended: on a text of n pairwise distinct bytes every phrase has
\* length 0, the loop runs while textPos <= n+1, and the parse ends with
\* z = n+1: the last phrase is the length-0 phrase of the terminator.
C7_DistinctCountNPlus1 ==
  DistinctBytes =>
     /\ \A idx \in 1..Len(out) : out[idx].len = 0 /\ out[idx].src = -1
     /\ pc = "done" =>
           /\ z = n + 1
           /\ Len(out) = n + 1
           /\ out[n + 1].lit = SENTINEL
           /\ textPos = n + 2

\* the parse of the bytes 0x01..0x10 with C = 5 has returned
C7_Witness ==
  /\ pc = "done"
  /\ DistinctBytes
  /\ n = MaxDistinct
  /\ COST = ScenarioCost

\* the text "aaaa" with C = 2
TextAAAA == tree_string = <<1, 1, 1, 1, SENTINEL>> /\ COST = 2

\* C8 as stated: "aaaa" with C = 2 is parsed into (-, 0, 'a'), (0, 2, 'a'),
\* (0, 1, terminator) and z = 3.
C8_ThreePhrases ==
  (pc = "done" /\ TextAAAA) =>
     /\ out = << [src |-> -1, len |-> 0, lit |-> 1],
                 [src |-> 0, len |-> 2, lit |-> 1],
                 [src |-> 0, len |-> 1, lit |-> SENTINEL] >>
     /\ z = 3

\* C8 amended: "aaaa" with C = 2 is parsed into (-, 0, 'a') and
\* (0, 3, terminator), z = 2; the parse never stops early.
C8_TwoPhrases ==
  TextAAAA =>
     /\ pc \notin {"abort_cost", "abort_source0", "crash"}
     /\ pc = "done" =>
           /\ out = << [src |-> -1, len |-> 0, lit |-> 1],
                       [src |-> 0, len |-> 3, lit |-> SENTINEL] >>
           /\ z = 2

\* the parse of "aaaa" with C = 2 has returned
C8_Witness == pc = "done" /\ TextAAAA

\* the leaves of the tree
Leaves == {v \in 1..Len(nodes) : nodes[v].sons = NULL}

\* label of the path from the root to node v, leaf edges ending at e
RECURSIVE PathLabel(_)
PathLabel(v) ==
  IF v = ROOT THEN <<>>
  ELSE PathLabel(nodes[v].father)
         \o SubSeq(tree_string, nodes[v].edge_label_start,
                   get_node_label_end(nodes, e, v))

\* C9: after ST_CreateTree the tree has n+1 leaves, and for every position
\* p in 1..n+1 inversePointers[p] is the leaf of path position p whose path
\* spells T[p..n+1].
C9_LeafPerSuffix ==
  pc = "created" =>
     /\ Cardinality(Leaves) = n + 1
     /\ \A p \in 1..(n + 1) :
           /\ inversePointers[p] # NULL
           /\ inversePointers[p] \in Leaves
           /\ nodes[inversePointers[p]].path_position = p
           /\ PathLabel(inversePointers[p]) = SubSeq(tree_string, p, n + 1)

\* C10: after the DFS every non-root node has the string depth of its
\* father plus the length of its incoming edge, a leaf's edge ending at e
\* (stated for n >= 2, where the phase loop has set e).
C10_StrDepth ==
  (pc = "created" /\ n >= 2) =>
     \A v \in 2..Len(nodes) :
        nodes[v].strDepth = nodes[nodes[v].father].strDepth
                            + get_node_label_length(nodes, e, v)

\* the internal nodes other than the root
InternalNodes == {v \in 2..Len(nodes) : nodes[v].sons # NULL}

\* C11: at the end of every phase and after construction no node awaits a
\* suffix link, every internal non-root node has one, and the link of the
\* node spelling a.w leads to the internal node (or the root) spelling w.
C11_SuffixLinks ==
  /\ suffixless = NULL
  /\ \A v \in InternalNodes :
        /\ nodes[v].suffix_link # NULL
        /\ nodes[v].suffix_link \in InternalNodes \cup {ROOT}
        /\ PathLabel(nodes[v].suffix_link) = Tail(PathLabel(v))

\* the construction has ended with an internal node of depth at least two,
\* whose link leads to a node other than the root
C11_Witness ==
  /\ pc = "created"
  /\ \E v \in InternalNodes :
        Len(PathLabel(v)) >= 2 /\ nodes[v].suffix_link # ROOT

\* the largest element of a non-empty set of integers
SetMax(S) == CHOOSE x \in S : \A y \in S : y <= x

\* C12: after ST_CreateTree maxStrDepth is non-decreasing over 2..n+1, every
\* position 1..n+1 has its leaf, and maxStrDepth[i] is the maximum over
\* j <= i of j + strDepth(father of leaf j) - 1.
C12_MonotoneMaxStrDepth ==
  pc = "created" =>
     /\ \A q \in 2..(n + 1) : maxStrDepth[q] >= maxStrDepth[q - 1]
     /\ \A q \in 1..(n + 1) :
           /\ \E v \in Leaves : nodes[v].path_position = q
           /\ maxStrDepth[q] =
                SetMax({nodes[v].path_position
                          + nodes[nodes[v].father].strDepth - 1 :
                        v \in {w \in Leaves : nodes[w].path_position <= q}})

\* the result of one more call dfsForInversePointers(root, tree, 0) on the
\* current tree
DfsRerun ==
  dfsForInversePointers([nodes |-> nodes, inversePointers |-> inversePointers,
                         maxStrDepth |-> maxStrDepth, num |-> 0], ROOT, 0)

\* C13: on the tree ST_CreateTree returned, a second run of the DFS leaves
\* inversePointers, maxStrDepth and the strDepth of every node as they are.
C13_DfsIdempotent ==
  pc = "created" =>
     /\ DfsRerun.inversePointers = inversePointers
     /\ DfsRerun.maxStrDepth = maxStrDepth
     /\ \A v \in 1..Len(nodes) : DfsRerun.nodes[v].strDepth = nodes[v].strDepth

\* ST_CreateTree has returned a tree with internal nodes on which the second
\* run visits every leaf
C13_Witness ==
  /\ pc = "created"
  /\ InternalNodes # {}
  /\ DfsRerun.num = n + 1
  /\ \E q \in 2..(n + 1) : maxStrDepth[q] > maxStrDepth[q - 1]

\* C14: once the DFS has initialised the annotations, every node has
\* optimisticMinMax <= minMax in the unsigned order, where the unset value
\* is the largest.
C14_OptimisticLattice ==
  pc \notin {"construct"} =>
     \A v \in 1..Len(nodes) :
        ULessEq(nodes[v].annot.optimisticMinMax, nodes[v].annot.minMax)

\* C16: every way the program ends on an error (usage, file that does not
\* open, allocation failure, zero byte in the payload, an abort of the
\* parser) ends it with exit status 1, and exit status 0 comes only from a
\* complete parse.
C16_ExitStatus ==
  /\ pc \in {"usage", "cant_open", "out_of_memory", "zeros_inside", "abort_source0", "abort_cost"} => exit_status = 1
  /\ exit_status = 0 => pc = "done"

\* the payload of the input file holds a zero byte
ZeroInPayload == file.exists /\ \E q \in 1..Len(file.bytes) : file.bytes[q] = SENTINEL

\* C17: when a byte of the payload is 0 the program never gets past main:
\* no tree is built, no phrase and no "n = " line is printed, and if the
\* scan is reached the program ends there, reporting the zero, with status 1.
C17_ZeroByteRejected ==
  (argc >= 3 /\ ZeroInPayload) =>
     /\ pc \in {"main", "out_of_memory", "zeros_inside"}
     /\ pc = "zeros_inside" => exit_status = 1
     /\ pc = "out_of_memory" => nodes = <<>>
     /\ nodes = <<>> /\ tree_string = <<>>
     /\ out = <<>> /\ header = 0

\* a payload whose first byte is fine and a later one is 0 was rejected
C17_Witness ==
  /\ pc = "zeros_inside" /\ exit_status = 1
  /\ Len(file.bytes) >= 2 /\ file.bytes[1] # SENTINEL /\ ZeroInPayload

\* the segment tree S holds the cost array U at every text position
SReflectsU == \A q \in 1..length : segm[q] = costArray[q]

\* one step of the parser keeps the order query -> cost updates -> literal
\* -> propagation: U changes only in the copy loop and at the literal, S
\* changes with it at the same index to the same value, the annotations
\* change only in the propagation, and the literal comes after the last
\* byte of the copy
OrderedStep ==
  /\ costArray' # costArray => pc = "copy" /\ nodes' = nodes /\ SReflectsU'
  /\ segm' # segm => costArray' # costArray
  /\ (pc \in {"loop", "copy", "propagate", "emit"} /\ nodes' # nodes) => pc = "propagate" /\ costArray' = costArray /\ segm' = segm
  /\ pc = "loop" => pc' \in {"copy", "abort_source0", "done"}
  /\ pc = "copy" => pc' \in {"copy", "propagate", "abort_cost", "crash"}
  /\ (pc = "copy" /\ pc' = "copy") => i < currentPhrase.length /\ i' = i + 1 /\ costArray'[textPos + i] = segm'[textPos + i]
  /\ (pc = "copy" /\ pc' = "propagate") => i = currentPhrase.length /\ costArray'[textPos + i] = 0 /\ segm'[textPos + i] = 0
  /\ pc = "propagate" => pc' \in {"emit", "crash"}
  /\ pc = "emit" => pc' = "loop"

\* C15: in every parser iteration the steps come in the order query, cost
\* updates each with its segment tree update, literal update, propagation;
\* the segment tree reflects the cost array whenever the annotations are
\* queried or propagated, and no query comes between a cost write and its
\* propagation.
C15_Ordering == [](pc \in {"loop", "propagate", "emit", "done"} => SReflectsU) /\ [][OrderedStep]_vars

\* a phrase of two or more copied bytes has been written and is about to be
\* propagated, with S equal to U
C15_Witness ==
  /\ pc = "propagate" /\ currentPhrase.length >= 2
  /\ SReflectsU
  /\ \E q \in 1..length : costArray[q] \in 1..COST

\* node w lies in the subtree of node v
RECURSIVE InSubtree(_, _)
InSubtree(w, v) ==
  IF w = v THEN TRUE
  ELSE IF w = ROOT \/ w = NULL THEN FALSE
  ELSE InSubtree(nodes[w].father, v)

\* the text positions of the leaves below v
SubtreePositions(v) == {nodes[w].path_position : w \in {u \in Leaves : InSubtree(u, v)}}

SetMin(S) == CHOOSE x \in S : \A y \in S : x <= y

\* max U[p..p+d-1] capped at C
CappedRangeMax(p, d) ==
  LET m == SetMax({costArray[q] : q \in p..(p + d - 1)})
  IN  IF m > COST THEN COST ELSE m

\* the positions below v whose range of v's depth ends inside the prefix
\* parsed so far, which ends at position last
Candidates(v, last) == {p \in SubtreePositions(v) : p + nodes[v].strDepth - 1 <= last}

\* C18: after every propagateAnnotation, for every internal node v other
\* than the root, with string depth d, minMax(v) is the least value of
\* min(C, max U[p..p+d-1]) over the leaves p below v whose range lies in the
\* parsed prefix (unset when there is none), and textPos(v) is such a p
\* that attains it.
C18_CommittedMeaning ==
  pc = "emit" =>
     \A v \in InternalNodes :
        LET cand == Candidates(v, textPos + currentPhrase.length)
            an == nodes[v].annot
        IN  IF cand = {} THEN an.minMax = UNSET
            ELSE /\ an.minMax = SetMin({CappedRangeMax(p, nodes[v].strDepth) : p \in cand})
                 /\ an.textPos \in cand
                 /\ CappedRangeMax(an.textPos, nodes[v].strDepth) = an.minMax

\* an internal node with two candidate positions of different capped cost
\* carries the smaller one
C18_Witness ==
  /\ pc = "emit"
  /\ \E v \in InternalNodes :
        \E p1, p2 \in Candidates(v, textPos + currentPhrase.length) :
           /\ CappedRangeMax(p1, nodes[v].strDepth) < CappedRangeMax(p2, nodes[v].strDepth)
           /\ nodes[v].annot.minMax = CappedRangeMax(p1, nodes[v].strDepth)
           /\ nodes[v].annot.minMax < COST

\* C19: between parser iterations, for every internal node v and every leaf
\* u below v whose annotation has been set, minMax(v) <= minMax(u), an
\* unset minMax(v) standing for +infinity.
C19_InternalBelowLeaves ==
  pc \in {"loop", "done"} =>
     \A v \in InternalNodes \cup {ROOT} :
        \A u \in {w \in Leaves : InSubtree(w, v)} :
           nodes[u].annot.minMax # UNSET => ULessEq(nodes[v].annot.minMax, nodes[u].annot.minMax)

\* the source position the copy loop reads next
NextSource == currentPhrase.pos + k

\* C20: the exit of the cost check (line 848) is never taken: whenever the
\* copy loop is about to copy a byte, the source position it reads is an
\* already parsed position (never an unassigned one holding n+1) whose cost
\* is strictly below C, so the cost it writes is at most C.
C20_NoCostAbort ==
  /\ pc # "abort_cost"
  /\ (pc = "copy" /\ i < currentPhrase.length) =>
        /\ NextSource \in 1..(textPos + i - 1)
        /\ costArray[NextSource] < COST
        /\ costArray[NextSource] + 1 <= COST

\* the copy loop has just written a byte whose cost reached C exactly, from
\* a source of cost C - 1 >= 1, and goes on
C20_Witness ==
  /\ pc = "copy" /\ i >= 1 /\ i < currentPhrase.length
  /\ COST >= 2
  /\ costArray[textPos + i - 1] = COST

\* C21: the exit "Position of source was 0" (line 610) is never taken: once
\* the tree is annotated, every node other than the root whose
\* optimisticMinMax is neither unset nor C, the nodes whose edge
\* ST_FindSubstring walks, has a nonzero optimisticTextPos; a node that copied
\* its still unset committed pair has optimisticMinMax unset and is not walked.
C21_NoSourceZeroAbort ==
  /\ pc # "abort_source0"
  /\ pc \in {"created", "tested", "loop", "copy", "propagate", "emit", "done"} =>
        \A v \in 2..Len(nodes) :
           nodes[v].annot.optimisticMinMax \notin {UNSET, COST} => nodes[v].annot.optimisticTextPos # 0

\* a query has walked edges and found a source while some internal node has
\* its optimistic pair set, below C, before its committed pair
C21_Witness ==
  /\ pc = "copy" /\ currentPhrase.length >= 1 /\ currentPhrase.pos # 0
  /\ ~ currentPhrase.fromD
  /\ \E v \in InternalNodes :
        /\ nodes[v].annot.optimisticMinMax \notin {UNSET, COST}
        /\ nodes[v].annot.minMax = UNSET
        /\ nodes[v].annot.optimisticTextPos # 0

\* the proper ancestors of node w
Ancestors(w) == {v \in 1..Len(nodes) : v # w /\ InSubtree(w, v)}

\* the positions i for which the loop of propagateAnnotation (lines 805-812)
\* calls changeAnnotationFromLeaf in the propagation of the current phrase:
\* from textPos + length downwards until maxStrDepth[i] < textPos
PropagatedPositions ==
  {q \in 1..(textPos + currentPhrase.length) :
     \A j \in q..(textPos + currentPhrase.length) : ~ ULess(maxStrDepth[j], textPos)}

\* the ranges <<l, r>> of the cappedMax calls of those walks (lines 686-694):
\* one for every ancestor of leaf q with strDepth > textPos - q whose range
\* ends at or before finalPos
CappedMaxQueries ==
  UNION {{<<q, q + nodes[v].strDepth - 1>> :
            v \in {a \in Ancestors(inversePointers[q]) :
                     /\ nodes[a].strDepth > textPos - q
                     /\ q + nodes[a].strDepth - 1 <= textPos + currentPhrase.length}} :
         q \in {p \in PropagatedPositions : inversePointers[p] # NULL}}

\* C22: every cappedMax query of changeAnnotationFromLeaf has a non-empty
\* range inside the parsed prefix, 1 <= l <= r <= finalPos; in particular no
\* query is made at the root, of string depth 0.
C22_QueryRanges ==
  pc = "propagate" =>
     \A qr \in CappedMaxQueries :
        1 <= qr[1] /\ qr[1] <= qr[2] /\ qr[2] <= textPos + currentPhrase.length

\* C23: in every parser iteration the match length L is at most
\* n - textPos + 1, so the literal position textPos + L is at most n + 1 and
\* every position of T, U, D and S that the iteration reads or writes lies
\* in 1..n+1, although the search is called with P = n + 1 and may take its
\* length from D.
C23_PhraseBounds ==
  /\ pc \in {"copy", "propagate", "emit"} =>
        /\ currentPhrase.length <= n - textPos + 1
        /\ textPos + currentPhrase.length \in 1..(n + 1)
        /\ currentPhrase.length >= 1 => currentPhrase.pos \in 1..(n + 1)
  /\ (pc = "copy" /\ i < currentPhrase.length) =>
        /\ textPos + i \in 1..(n + 1)
        /\ NextSource \in 1..(n + 1)

\* a phrase of two or more copied bytes ends exactly at the terminator, its
\* literal at position n + 1
C23_Witness ==
  /\ pc = "emit"
  /\ textPos + currentPhrase.length = n + 1
  /\ currentPhrase.length >= 2

\* the positions the loop of propagateAnnotation does not reach because it
\* stopped at a position i with maxStrDepth[i] < textPos
SkippedPositions == (1..(textPos + currentPhrase.length)) \ PropagatedPositions

\* what the skipped call for position j would have left in the node arena
SkippedCall(j) ==
  changeAnnotationFromLeaf(nodes, inversePointers, j,
                           textPos + currentPhrase.length, textPos - j,
                           SetMax({costArray[q] : q \in j..(textPos + currentPhrase.length)}),
                           costArray, segm, D, COST)

\* C24: when the loop of propagateAnnotation stops early at position i, for
\* every j <= i every ancestor of leaf j has strDepth <= textPos - j, and
\* the skipped call changeAnnotationFromLeaf(j, ...) would have changed no
\* internal node.
C24_EarlyStopLossless ==
  pc = "propagate" =>
     \A j \in SkippedPositions :
        inversePointers[j] # NULL =>
           /\ \A v \in Ancestors(inversePointers[j]) : nodes[v].strDepth <= textPos - j
           /\ \A v \in InternalNodes \cup {ROOT} : SkippedCall(j)[v] = nodes[v]

\* the loop stops early above a leaf that hangs below an internal node
C24_Witness ==
  /\ pc = "propagate"
  /\ \E j \in SkippedPositions :
        /\ inversePointers[j] # NULL
        /\ nodes[inversePointers[j]].father # ROOT
        /\ j + 1 \in SkippedPositions

\* the maximum of U over q..finalPos, the minMaxOfRange that the loop of
\* propagateAnnotation passes for position q (lines 807-810)
MinMaxOfRangeAt(q) == SetMax({costArray[p] : p \in q..(textPos + currentPhrase.length)})

\* the node arena when the loop of propagateAnnotation is about to call
\* changeAnnotationFromLeaf for position q: the calls for the positions
\* above q have been made
RECURSIVE ArenaAt(_)
ArenaAt(q) ==
  IF q >= textPos + currentPhrase.length THEN nodes
  ELSE changeAnnotationFromLeaf(ArenaAt(q + 1), inversePointers, q + 1,
                                textPos + currentPhrase.length,
                                textPos - (q + 1), MinMaxOfRangeAt(q + 1),
                                costArray, segm, D, COST)

\* the arena when the walk from leaf q is about to visit its ancestor v: the
\* leaf and the ancestors deeper than v have been updated (the walk of
\* line 686 stopped at strDepth(v))
ArenaBefore(q, v) ==
  changeAnnotationFromLeaf(ArenaAt(q), inversePointers, q,
                           textPos + currentPhrase.length, nodes[v].strDepth,
                           MinMaxOfRangeAt(q), costArray, segm, D, COST)

\* the visit of ancestor v in the walk from leaf q: the annotation of v after
\* the committed update (cur), the annotation of its best child (son), and
\* the annotation of v after the optimistic update (new)
Visit(q, v) ==
  LET ns == ArenaBefore(q, v)
      cur == commit_annot(ns[v].annot, ns[v].strDepth, q,
                          textPos + currentPhrase.length, costArray, segm, D, COST)
      son == ns[getMinMaxOfChildren(ns, D, v)].annot
  IN  [cur |-> cur, son |-> son,
       new |-> optimistic_annot(cur, son, q, MinMaxOfRangeAt(q), D, COST)]

\* the visits <<q, v>> of the propagation of the current phrase
Visits ==
  {qv \in PropagatedPositions \X (1..Len(nodes)) :
     /\ inversePointers[qv[1]] # NULL
     /\ qv[2] \in Ancestors(inversePointers[qv[1]])
     /\ nodes[qv[2]].strDepth > textPos - qv[1]}

\* C25: when a visited ancestor has optimisticMinMax = C and its best child
\* has it too, the ancestor ends the visit with whichever of its own and the
\* child's optimisticTextPos has the higher D[]; when the best child's
\* value is not C, the ancestor ends it with its own committed pair.
C25_CappedRecompute ==
  pc = "propagate" =>
     \A qv \in Visits :
        LET r == Visit(qv[1], qv[2]) IN
        r.cur.optimisticMinMax = COST =>
           IF r.son.optimisticMinMax = COST
           THEN /\ r.new.optimisticMinMax = COST
                /\ r.new.optimisticTextPos =
                     IF D[r.son.optimisticTextPos] > D[r.cur.optimisticTextPos]
                     THEN r.son.optimisticTextPos ELSE r.cur.optimisticTextPos
           ELSE /\ r.new.optimisticMinMax = r.cur.minMax
                /\ r.new.optimisticTextPos = r.cur.textPos

\* the parsed positions whose cost equals C
CappedPositions == {q \in 1..(textPos - 1) : q <= length /\ costArray[q] = COST}

\* C26: after every parser iteration positionOfPreviousC is the largest
\* parsed position whose cost equals C (0 when there is none), D[q] is the
\* distance from q to the nearest position q' >= q of cost C for every
\* q <= positionOfPreviousC, and D[q] = -1 for every q above it.
C26_DistanceArray ==
  pc \in {"loop", "done"} =>
     /\ positionOfPreviousC = IF CappedPositions = {} THEN 0 ELSE SetMax(CappedPositions)
     /\ \A q \in 1..length :
           IF q <= positionOfPreviousC
           THEN D[q] = SetMin({p \in CappedPositions : p >= q}) - q
           ELSE D[q] = -1

\* two positions have reached cost C and a position between them counts
\* its distance to the second
C26_Witness ==
  /\ pc = "loop"
  /\ Cardinality(CappedPositions) >= 2
  /\ \E q \in 1..length : D[q] >= 1 /\ \E p \in CappedPositions : p < q
  /\ \E q \in 1..length : q > positionOfPreviousC /\ q < textPos

\* C27: every match ST_FindSubstring returns during the parse has length 0
\* exactly when its pos is 0, and a match of positive length has its source
\* in the part parsed by earlier iterations, 1 <= pos < textPos.
C27_SourceValidity ==
  pc \in {"copy", "propagate", "emit"} =>
     /\ currentPhrase.length = 0 <=> currentPhrase.pos = 0
     /\ currentPhrase.length > 0 => 1 <= currentPhrase.pos /\ currentPhrase.pos < textPos

\* a match of positive length whose source is not the first position, and
\* an earlier phrase without a source
C27_Witness ==
  /\ pc = "copy"
  /\ currentPhrase.length >= 1 /\ currentPhrase.pos >= 2 /\ currentPhrase.pos < textPos
  /\ \E idx \in 1..Len(out) : out[idx].len = 0 /\ out[idx].src = -1

\* sum of (L + 1) over the first idx printed phrases
RECURSIVE SumPhraseLengths(_)
SumPhraseLengths(idx) ==
  IF idx = 0 THEN 0 ELSE SumPhraseLengths(idx - 1) + out[idx].len + 1

\* one iteration advances textPos by L + 1 >= 1 and prints one phrase
IterationStep ==
  /\ pc = "emit" =>
        /\ textPos' = textPos + currentPhrase.length + 1
        /\ textPos' > textPos
        /\ Len(out') = Len(out) + 1
        /\ out'[Len(out')].len = currentPhrase.length
  /\ pc # "emit" => out' = out /\ textPos' = textPos
  /\ z' \in {z, z + 1}
  /\ z' = z + 1 <=> (pc = "loop" /\ pc' # "done")

\* C28: every iteration prints exactly one phrase and advances textPos by
\* exactly L + 1 >= 1, so at the head of the loop the phrases printed are
\* as many as the iterations made, at most as many as the positions parsed,
\* and their lengths plus one add up to textPos - 1; the loop, once entered,
\* reaches its end.
C28_Progress ==
  /\ (pc = "loop" ~> pc = "done")
  /\ [](pc \in {"loop", "done"} =>
          /\ Len(out) = z
          /\ z <= textPos - 1
          /\ SumPhraseLengths(Len(out)) = textPos - 1
          /\ (pc = "done" => z <= n + 1 /\ textPos = n + 2))
  /\ [][IterationStep]_vars

====
